---- MODULE Spec2Model ----
(***************************************************************************)
(* Model of src/libpriv/rpmostree-origin.cxx: the RpmOstreeOrigin record,  *)
(* its two representations (the Treefile and the GKeyFile), its five       *)
(* package caches and the operations that mutate them.                     *)
(*                                                                         *)
(* Memory is modelled as a heap of objects (the origin struct, the         *)
(* reference counted GKeyFile, the boxed Treefile, the GHashTables) so     *)
(* that sharing, freeing and leaking are observable.  The Treefile and     *)
(* the origin<->treefile conversion live in the Rust half of the           *)
(* repository; they are modelled from the specification.                   *)
(***************************************************************************)
EXTENDS Integers, Sequences, FiniteSets, TLC

(***************************************************************************)
(* Bounds                                                                  *)
(***************************************************************************)
\* number of heap cells
MaxAddr == 17
\* longest identifier list handed to remove-packages
MaxRemoveLen == 2
\* longest identifier list handed to an add operation
MaxAddLen == 1
\* largest share count an origin is driven to
MaxRefcount == 2

(***************************************************************************)
(* Package identifiers.  An identifier is the tuple of its fields: a bare  *)
(* name / capability is <<name>>, a NEVRA is <<name, evr, arch>>.          *)
(***************************************************************************)
foo == <<"foo">>
bar == <<"bar">>
vim == <<"vim">>
foo_1 == <<"foo", "1.0-1", "x86_64">>
foo_2 == <<"foo", "2.0-1", "x86_64">>
bar_1 == <<"bar", "1.0-1", "x86_64">>

\* the identifiers of the model, in their lexicographic (string) order
PkgOrder == <<bar, bar_1, foo, foo_1, foo_2, vim>>

\* the element of a one-element set; The({ F(x) : x \in {e} }) is F of the
\* value of e, a local variable assigned once
The(S) == CHOOSE y \in S : TRUE

Range(s) == {s[i] : i \in DOMAIN s}

Hashes == {"h1"}

\* "<hash>:<identifier>" tokens
Token(h, id) == <<h, id>>

NULL == 0

(***************************************************************************)
(* Flat record (GKeyFile): a function from <<group, key>> to the value.    *)
(* A key that is absent from the key file is absent from the domain.       *)
(***************************************************************************)
K_refspec == <<"origin", "refspec">>
K_requested == <<"packages", "requested">>
K_requested_local == <<"packages", "requested-local">>
K_requested_local_fileoverride == <<"packages", "requested-local-fileoverride">>
K_overrides_remove == <<"overrides", "remove">>
K_overrides_replace_local == <<"overrides", "replace-local">>

\* the keys of the rebase and of the auxiliary settings
K_custom_url == <<"origin", "custom-url">>
K_custom_description == <<"origin", "custom-description">>
K_override_commit == <<"origin", "override-commit">>
K_regenerate_initramfs == <<"rpmostree", "regenerate-initramfs">>
K_initramfs_args == <<"rpmostree", "initramfs-args">>
K_initramfs_etc == <<"rpmostree", "initramfs-etc">>
K_cliwrap == <<"rpmostree", "ex-cliwrap">>
K_modules_enable == <<"modules", "enable">>
K_modules_install == <<"modules", "install">>

HashedKeys == {K_requested_local, K_requested_local_fileoverride, K_overrides_replace_local}

\* g_key_file_get_string_list: NULL (here the empty list) for an absent key
g_key_file_get_string_list(kf, key) == IF key \in DOMAIN kf THEN kf[key] ELSE <<>>

\* g_key_file_get_string / g_key_file_get_boolean: the default for an absent key
g_key_file_get_value(kf, key, default) == IF key \in DOMAIN kf THEN kf[key] ELSE default

\* g_key_file_set_string_list
g_key_file_set_string_list(kf, key, list) ==
    [k \in DOMAIN kf \cup {key} |-> IF k = key THEN list ELSE kf[k]]

\* g_key_file_remove_key
g_key_file_remove_key(kf, key) == [k \in DOMAIN kf \ {key} |-> kf[k]]

(***************************************************************************)
(* Hash tables (GHashTable): functions from key to value.  A set table     *)
(* (g_hash_table_add) stores the key as its own value.                     *)
(***************************************************************************)
EmptyTable == <<>>

g_hash_table_contains(ht, key) == key \in DOMAIN ht

g_hash_table_replace(ht, key, value) ==
    [k \in DOMAIN ht \cup {key} |-> IF k = key THEN value ELSE ht[k]]

g_hash_table_add(ht, key) == g_hash_table_replace(ht, key, key)

g_hash_table_remove(ht, key) == [k \in DOMAIN ht \ {key} |-> ht[k]]

\* the keys of a table in the order the iteration of this call visits them:
\* iter is an arbitrary order of all identifiers (the order of a GHashTable
\* iteration depends on the hash values and is not specified)
Iterate(ht, iter) == SelectSeq(iter, LAMBDA k : k \in DOMAIN ht)

(***************************************************************************)
(* Identifier decomposition (rpmostree-rpm-util, not in this file).        *)
(***************************************************************************)
\* rpmostree_decompose_nevra: a NEVRA has name, evr and arch fields
IsNevra(id) == Len(id) = 3
NevraName(id) == <<id[1]>>

\* rpmostree_decompose_sha256_nevra: a token is "<sha256>:<nevra>"
TokenDecomposes(tok) == Len(tok) = 2 /\ tok[1] \in Hashes
TokenSha256(tok) == tok[1]
TokenNevra(tok) == tok[2]

(***************************************************************************)
(* Structured config (rpmostreecxx::Treefile) and the adapter between it   *)
(* and the flat record (origin_to_treefile / treefile_to_origin).          *)
(***************************************************************************)
\* the sorted list of a set of identifiers
SortedList(S) == SelectSeq(PkgOrder, LAMBDA k : k \in S)

\* fold a list of "<hash>:<nevra>" tokens into a map nevra -> hash
RECURSIVE TokensToMap(_)
TokensToMap(toks) ==
    IF toks = <<>> THEN EmptyTable
    ELSE LET rest == TokensToMap(SubSeq(toks, 1, Len(toks) - 1))
             tok == toks[Len(toks)]
         IN  g_hash_table_replace(rest, TokenNevra(tok), TokenSha256(tok))

MapToTokens(m) == LET keys == SortedList(DOMAIN m)
                  IN  [i \in 1..Len(keys) |-> Token(m[keys[i]], keys[i])]

\* the module names and file paths of the auxiliary settings, in sorted order
AuxOrder == <<"/etc/crypttab", "/etc/fstab", "nodejs:16", "postgresql:14">>

SortedAux(S) == SelectSeq(AuxOrder, LAMBDA k : k \in S)

\* a base reference the adapter accepts
RefspecValid(refspec) == refspec # ""

\* to-structured is fallible: the record needs a valid base reference and
\* every hash-qualified token has to decompose
Convertible(kf) ==
    /\ K_refspec \in DOMAIN kf
    /\ RefspecValid(kf[K_refspec])
    /\ \A key \in HashedKeys : \A tok \in Range(g_key_file_get_string_list(kf, key)) :
          TokenDecomposes(tok)

origin_to_treefile(kf) ==
    [ refspec |-> kf[K_refspec],
      custom_url |-> g_key_file_get_value(kf, K_custom_url, ""),
      custom_description |-> g_key_file_get_value(kf, K_custom_description, ""),
      override_commit |-> g_key_file_get_value(kf, K_override_commit, ""),
      initramfs_regenerate |-> g_key_file_get_value(kf, K_regenerate_initramfs, FALSE),
      initramfs_args |-> g_key_file_get_string_list(kf, K_initramfs_args),
      initramfs_etc |-> Range(g_key_file_get_string_list(kf, K_initramfs_etc)),
      cliwrap |-> g_key_file_get_value(kf, K_cliwrap, FALSE),
      modules_enable |-> Range(g_key_file_get_string_list(kf, K_modules_enable)),
      modules_install |-> Range(g_key_file_get_string_list(kf, K_modules_install)),
      packages |-> Range(g_key_file_get_string_list(kf, K_requested)),
      packages_local |-> TokensToMap(g_key_file_get_string_list(kf, K_requested_local)),
      packages_local_fileoverride |->
          TokensToMap(g_key_file_get_string_list(kf, K_requested_local_fileoverride)),
      override_remove |-> Range(g_key_file_get_string_list(kf, K_overrides_remove)),
      override_replace_local |->
          TokensToMap(g_key_file_get_string_list(kf, K_overrides_replace_local)) ]

\* a section is written only when it has entries
SetSection(kf, key, list) == IF list = <<>> THEN kf ELSE g_key_file_set_string_list(kf, key, list)

\* a string is written only when it is set, a flag only when it is on
SetValue(kf, key, value, default) ==
    IF value = default THEN kf ELSE [k \in DOMAIN kf \cup {key} |-> IF k = key THEN value ELSE kf[k]]

\* the rebase and auxiliary settings of a treefile, written to a key file
AuxToOrigin(tf, kf) ==
    The({ SetSection(SetSection(SetSection(SetSection(
              SetValue(SetValue(k, K_regenerate_initramfs, tf.initramfs_regenerate, FALSE),
                       K_cliwrap, tf.cliwrap, FALSE),
              K_initramfs_args, tf.initramfs_args),
              K_initramfs_etc, SortedAux(tf.initramfs_etc)),
              K_modules_enable, SortedAux(tf.modules_enable)),
              K_modules_install, SortedAux(tf.modules_install))
          : k \in {SetValue(SetValue(SetValue(kf, K_custom_url, tf.custom_url, ""),
                                     K_custom_description, tf.custom_description, ""),
                            K_override_commit, tf.override_commit, "")} })

treefile_to_origin(tf) ==
    LET k0 == (K_refspec :> tf.refspec)
        k1 == SetSection(k0, K_requested, SortedList(tf.packages))
        k2 == SetSection(k1, K_requested_local, MapToTokens(tf.packages_local))
        k3 == SetSection(k2, K_requested_local_fileoverride,
                         MapToTokens(tf.packages_local_fileoverride))
        k4 == SetSection(k3, K_overrides_remove, SortedList(tf.override_remove))
    IN  AuxToOrigin(tf, SetSection(k4, K_overrides_replace_local,
                                   MapToTokens(tf.override_replace_local)))

(***************************************************************************)
(* The heap.  A cell is free or holds one object: an RpmOstreeOrigin       *)
(* struct, a GKeyFile, a boxed Treefile or a GHashTable.                   *)
(***************************************************************************)
Addr == 1..MaxAddr
FreeCell == [kind |-> "free"]
EmptyHeap == [a \in Addr |-> FreeCell]

FreeAddrs(h) == {a \in Addr : h[a].kind = "free"}

\* the n-th lowest free address: the allocator's choice for the n-th allocation
NthFree(h, n) == SelectSeq([i \in 1..MaxAddr |-> i], LAMBDA a : h[a].kind = "free")[n]

KeyFileObj(kf) == [kind |-> "kf", rc |-> 1, val |-> kf]
TreefileObj(tf) == [kind |-> "tf", val |-> tf]
TableObj(ht) == [kind |-> "ht", rc |-> 1, val |-> ht]

\* g_key_file_ref
g_key_file_ref(h, a) == [h EXCEPT ![a].rc = @ + 1]

\* g_key_file_unref / g_hash_table_unref: drop one reference, free on the last
\* (a NULL argument is rejected with a warning and nothing happens)
g_unref(h, a) ==
    The({ IF p = NULL THEN g
          ELSE IF g[p].rc > 1 THEN [g EXCEPT ![p].rc = @ - 1]
          ELSE [g EXCEPT ![p] = FreeCell] : g \in {h}, p \in {a} })

(***************************************************************************)
(* struct RpmOstreeOrigin                                                  *)
(***************************************************************************)
CacheFields == <<"cached_packages", "cached_local_packages",
                 "cached_local_fileoverride_packages",
                 "cached_overrides_local_replace", "cached_overrides_remove">>

\* g_new0: every field zero, the optional treefile disengaged
NewOrigin == [ kind |-> "origin",
               refcount |-> 0,
               treefile |-> NULL,
               kf |-> NULL,
               cached_packages |-> NULL,
               cached_local_packages |-> NULL,
               cached_local_fileoverride_packages |-> NULL,
               cached_overrides_local_replace |-> NULL,
               cached_overrides_remove |-> NULL ]

Origins(h) == {a \in Addr : h[a].kind = "origin"}

\* the values an origin's fields point at
TreefileOf(h, o) == h[h[o].treefile].val
KeyFileOf(h, o) == h[h[o].kf].val
CacheOf(h, o, field) == h[h[o][field]].val

(***************************************************************************)
(* rpmostree_origin_ref / rpmostree_origin_unref                           *)
(***************************************************************************)
\* the result of a call: the heap it leaves, whether an assertion aborted
\* the process, and the value it returns
rpmostree_origin_ref(h, origin) ==
    [ heap |-> [h EXCEPT ![origin].refcount = @ + 1], abort |-> FALSE, ret |-> origin ]

rpmostree_origin_unref(h, origin) ==
    The({
        IF ~(g[origin].refcount > 0) THEN [heap |-> g, abort |-> TRUE]
        ELSE LET self == g[origin]
                 h0 == [g EXCEPT ![origin].refcount = @ - 1]
             IN  IF h0[origin].refcount > 0 THEN [heap |-> h0, abort |-> FALSE]
                 ELSE LET h1 == g_unref(h0, self.kf)
                          h2 == g_unref(h1, self.cached_packages)
                          h3 == g_unref(h2, self.cached_local_packages)
                          h4 == g_unref(h3, self.cached_local_fileoverride_packages)
                          h5 == g_unref(h4, self.cached_overrides_local_replace)
                          h6 == g_unref(h5, self.cached_overrides_remove)
                          \* g_free (origin): the struct goes, no destructor runs
                          \* for its treefile member
                      IN  [heap |-> [h6 EXCEPT ![origin] = FreeCell], abort |-> FALSE]
        : g \in {h} })

(***************************************************************************)
(* sync_treefile / sync_origin                                             *)
(***************************************************************************)
\* self->treefile.reset (), then the conversion, which may throw: the
\* treefile then stays disengaged
sync_treefile(h, self) ==
    LET old == h[self].treefile
        h0 == IF old = NULL THEN h ELSE [h EXCEPT ![old] = FreeCell, ![self].treefile = NULL]
        kf == KeyFileOf(h0, self)
    IN  IF ~Convertible(kf) THEN [heap |-> h0, threw |-> TRUE]
        ELSE LET a == NthFree(h0, 1)
             IN  [ heap |-> [h0 EXCEPT ![a] = TreefileObj(origin_to_treefile(kf)),
                                       ![self].treefile = a],
                   threw |-> FALSE ]

sync_origin(h, self) ==
    LET a == NthFree(h, 1)
        \* g_autoptr (GKeyFile) kf = treefile_to_origin (...)
        h0 == [h EXCEPT ![a] = KeyFileObj(treefile_to_origin(TreefileOf(h, self)))]
        \* g_clear_pointer (&self->kf, g_key_file_unref)
        h1 == [g_unref(h0, h0[self].kf) EXCEPT ![self].kf = NULL]
        \* self->kf = g_key_file_ref (kf)
        h2 == [g_key_file_ref(h1, a) EXCEPT ![self].kf = a]
    IN  \* the g_autoptr drops its reference
        g_unref(h2, a)

(***************************************************************************)
(* parse_packages_strv / rpmostree_origin_parse_keyfile / _dup             *)
(***************************************************************************)
\* fills ht from the list under key; fails at the first token that does not
\* decompose, leaving the entries inserted so far
RECURSIVE parse_list(_, _, _)
parse_list(list, has_sha256, ht) ==
    IF list = <<>> THEN [ok |-> TRUE, ht |-> ht]
    ELSE LET it == Head(list)
         IN  IF has_sha256
             THEN IF ~TokenDecomposes(it) THEN [ok |-> FALSE, ht |-> ht]
                  ELSE parse_list(Tail(list), has_sha256,
                                  g_hash_table_replace(ht, TokenNevra(it), TokenSha256(it)))
             ELSE parse_list(Tail(list), has_sha256, g_hash_table_add(ht, it))

parse_packages_strv(kf, key, has_sha256, ht) ==
    parse_list(g_key_file_get_string_list(kf, key), has_sha256, ht)

\* the round-trip diagnostic of the adapter
origin_validate_roundtrip(kf) ==
    Convertible(kf) /\ treefile_to_origin(origin_to_treefile(kf)) = kf

\* fill the cache stored in field of ret when every earlier step succeeded
FillCache(st, ret, key, has_sha256, field) ==
    The({ IF ~s.ok THEN s
          ELSE The({ [ok |-> r.ok, heap |-> [s.heap EXCEPT ![s.heap[ret][field]].val = r.ht]]
                     : r \in {parse_packages_strv(KeyFileOf(s.heap, ret), key, has_sha256,
                                                  CacheOf(s.heap, ret, field))} })
          : s \in {st} })

\* g_new0, refcount = 1, the treefile and the key file made from it
ParseRepresentations(h, origin, ret) ==
    LET h0 == [h EXCEPT ![ret] = [NewOrigin EXCEPT !.refcount = 1]]
        tf == NthFree(h0, 1)
        h1 == [h0 EXCEPT ![tf] = TreefileObj(origin_to_treefile(origin)),
                         ![ret].treefile = tf]
        kf == NthFree(h1, 1)
    IN  [h1 EXCEPT ![kf] = KeyFileObj(treefile_to_origin(h1[tf].val)),
                   ![ret].kf = kf]

\* the five g_hash_table_new_full
ParseTables(h2, ret) ==
    The({
        LET t1 == NthFree(g, 1)
            t2 == NthFree(g, 2)
            t3 == NthFree(g, 3)
            t4 == NthFree(g, 4)
            t5 == NthFree(g, 5)
        IN  [g EXCEPT ![t1] = TableObj(EmptyTable),
                      ![t2] = TableObj(EmptyTable),
                      ![t3] = TableObj(EmptyTable),
                      ![t4] = TableObj(EmptyTable),
                      ![t5] = TableObj(EmptyTable),
                      ![ret].cached_packages = t1,
                      ![ret].cached_local_packages = t2,
                      ![ret].cached_local_fileoverride_packages = t3,
                      ![ret].cached_overrides_local_replace = t4,
                      ![ret].cached_overrides_remove = t5]
        : g \in {h2} })

\* the five parse_packages_strv, in the order of the code
ParseCaches(h3, ret) ==
    LET s0 == [ok |-> TRUE, heap |-> h3]
        s1 == FillCache(s0, ret, K_requested, FALSE, "cached_packages")
        s2 == FillCache(s1, ret, K_requested_local, TRUE, "cached_local_packages")
        s3 == FillCache(s2, ret, K_requested_local_fileoverride, TRUE,
                        "cached_local_fileoverride_packages")
        s4 == FillCache(s3, ret, K_overrides_remove, FALSE, "cached_overrides_remove")
    IN  FillCache(s4, ret, K_overrides_replace_local, TRUE, "cached_overrides_local_replace")

\* a parse that returns on failure without releasing what it has built
rpmostree_origin_parse_keyfile_keeps_partial(h, origin) ==
    The({
        LET ret == NthFree(g, 1)
        IN  IF ~Convertible(kf)
            THEN [ heap |-> [g EXCEPT ![ret] = [NewOrigin EXCEPT !.refcount = 1]],
                   ret |-> NULL, error |-> "ConversionError" ]
            ELSE The({ [ heap |-> s5.heap, ret |-> IF s5.ok THEN ret ELSE NULL,
                         error |-> IF s5.ok THEN "" ELSE "MalformedPackageSpecifier" ]
                       : s5 \in {ParseCaches(ParseTables(ParseRepresentations(g, kf, ret),
                                                         ret), ret)} })
        : g \in {h}, kf \in {origin} })

\* a parse that fails when the round-trip diagnostic does not get back the
\* flat record it was given
rpmostree_origin_parse_keyfile_strict(h, origin) ==
    The({
        LET ret == NthFree(g, 1)
        IN  IF ~Convertible(kf) \/ ~origin_validate_roundtrip(kf)
            THEN [ heap |-> rpmostree_origin_unref(
                                [g EXCEPT ![ret] = [NewOrigin EXCEPT !.refcount = 1]],
                                ret).heap,
                   ret |-> NULL, error |-> "ConversionError" ]
            ELSE The({ [ heap |-> s5.heap, ret |-> ret, error |-> "" ]
                       : s5 \in {ParseCaches(ParseTables(ParseRepresentations(g, kf, ret),
                                                         ret), ret)} })
        : g \in {h}, kf \in {origin} })

rpmostree_origin_parse_keyfile(h, origin) ==
    The({
        LET ret == NthFree(g, 1)
        IN  IF ~Convertible(kf)
            THEN \* the conversion threw; the g_autoptr releases ret
                 [ heap |-> rpmostree_origin_unref(
                                [g EXCEPT ![ret] = [NewOrigin EXCEPT !.refcount = 1]],
                                ret).heap,
                   ret |-> NULL, error |-> "ConversionError" ]
            ELSE The({ IF ~s5.ok
                       THEN [ heap |-> rpmostree_origin_unref(s5.heap, ret).heap,
                              ret |-> NULL, error |-> "MalformedPackageSpecifier" ]
                       ELSE \* origin_validate_roundtrip (*ret->kf): its result is
                            \* dropped
                            [ heap |-> s5.heap, ret |-> ret, error |-> "" ]
                       : s5 \in {ParseCaches(ParseTables(ParseRepresentations(g, kf, ret),
                                                         ret), ret)} })
        : g \in {h}, kf \in {origin} })

\* cells a parse allocates
ParseCells == 8

\* a duplicate that takes a reference on the key file of the original instead
\* of keeping its own
rpmostree_origin_dup_shared(h, origin) ==
    The({ IF r.ret = NULL THEN [heap |-> r.heap, ret |-> NULL, abort |-> TRUE]
          ELSE LET h1 == g_unref(r.heap, r.heap[r.ret].kf)
                   h2 == [g_key_file_ref(h1, h[origin].kf) EXCEPT ![r.ret].kf = h[origin].kf]
               IN  [heap |-> h2, ret |-> r.ret, abort |-> FALSE]
          : r \in {rpmostree_origin_parse_keyfile(h, KeyFileOf(h, origin))} })

rpmostree_origin_dup(h, origin) ==
    The({ \* g_assert_no_error (local_error)
          [heap |-> r.heap, ret |-> r.ret, abort |-> r.ret = NULL]
          : r \in {rpmostree_origin_parse_keyfile(h, KeyFileOf(h, origin))} })

(***************************************************************************)
(* Operations of the structured config (rpmostreecxx::Treefile).  Each     *)
(* returns the treefile it leaves, an error ("" for none) and what the     *)
(* Rust method returns.                                                    *)
(***************************************************************************)
\* every identifier requested in one of the three requested buckets
Requested(tf) ==
    tf.packages \cup DOMAIN tf.packages_local \cup DOMAIN tf.packages_local_fileoverride

\* the three add operations share their duplicate handling: an identifier
\* requested in any bucket is a duplicate; the operation is atomic
RECURSIVE AddAll(_, _, _, _)
AddAll(tf, field, entries, allow_existing) ==
    IF entries = <<>> THEN [tf |-> tf, error |-> "", changed |-> FALSE]
    ELSE LET e == Head(entries)
         IN  IF e.key \in Requested(tf)
             THEN IF allow_existing THEN AddAll(tf, field, Tail(entries), allow_existing)
                  ELSE [tf |-> tf, error |-> "AlreadyRequested", changed |-> FALSE]
             ELSE LET tf1 == IF field = "packages"
                             THEN [tf EXCEPT !.packages = @ \cup {e.key}]
                             ELSE [tf EXCEPT ![field] = g_hash_table_replace(@, e.key, e.value)]
                      r == AddAll(tf1, field, Tail(entries), allow_existing)
                  IN  [r EXCEPT !.changed = (r.error = "")]

Atomic(tf, r) == IF r.error = "" THEN r ELSE [r EXCEPT !.tf = tf]

Treefile_add_packages(tf, packages, allow_existing) ==
    Atomic(tf, AddAll(tf, "packages",
                      [i \in DOMAIN packages |-> [key |-> packages[i], value |-> packages[i]]],
                      allow_existing))

\* local packages are handed over as "<hash>:<nevra>" tokens
AddLocal(tf, field, packages, allow_existing) ==
    IF \E i \in DOMAIN packages : ~TokenDecomposes(packages[i])
    THEN [tf |-> tf, error |-> "MalformedPackageSpecifier", changed |-> FALSE]
    ELSE Atomic(tf, AddAll(tf, field,
                           [i \in DOMAIN packages |-> [key |-> TokenNevra(packages[i]),
                                                       value |-> TokenSha256(packages[i])]],
                           allow_existing))

Treefile_add_local_packages(tf, packages, allow_existing) ==
    AddLocal(tf, "packages_local", packages, allow_existing)

Treefile_add_local_fileoverride_packages(tf, packages, allow_existing) ==
    AddLocal(tf, "packages_local_fileoverride", packages, allow_existing)

Treefile_remove_all_packages(tf) ==
    [ tf |-> [tf EXCEPT !.packages = {}, !.packages_local = EmptyTable,
                        !.packages_local_fileoverride = EmptyTable],
      error |-> "", changed |-> Requested(tf) # {} ]

\* an override that already exists is a validation error
Treefile_add_packages_override_remove(tf, packages) ==
    IF \E i \in DOMAIN packages : packages[i] \in tf.override_remove
    THEN [tf |-> tf, error |-> "ValidationError", changed |-> FALSE]
    ELSE [tf |-> [tf EXCEPT !.override_remove = @ \cup Range(packages)],
          error |-> "", changed |-> packages # <<>>]

Treefile_add_packages_override_replace_local(tf, packages) ==
    IF \E i \in DOMAIN packages : ~TokenDecomposes(packages[i])
    THEN [tf |-> tf, error |-> "MalformedPackageSpecifier", changed |-> FALSE]
    ELSE IF \E i \in DOMAIN packages : TokenNevra(packages[i]) \in DOMAIN tf.override_replace_local
    THEN [tf |-> tf, error |-> "ValidationError", changed |-> FALSE]
    ELSE [tf |-> [tf EXCEPT !.override_replace_local =
                               [k \in DOMAIN @ \cup {TokenNevra(t) : t \in Range(packages)} |->
                                   IF \E t \in Range(packages) : TokenNevra(t) = k
                                   THEN TokenSha256(CHOOSE t \in Range(packages) : TokenNevra(t) = k)
                                   ELSE @[k]]],
          error |-> "", changed |-> packages # <<>>]

Treefile_remove_package_override_remove(tf, package) ==
    [ tf |-> [tf EXCEPT !.override_remove = @ \ {package}],
      error |-> "", changed |-> package \in tf.override_remove ]

Treefile_remove_package_override_replace_local(tf, package) ==
    [ tf |-> [tf EXCEPT !.override_replace_local = g_hash_table_remove(@, package)],
      error |-> "", changed |-> package \in DOMAIN tf.override_replace_local ]

Treefile_remove_all_overrides(tf) ==
    [ tf |-> [tf EXCEPT !.override_remove = {}, !.override_replace_local = EmptyTable],
      error |-> "", changed |-> tf.override_remove # {} \/ DOMAIN tf.override_replace_local # {} ]

\* the rebase stores what it is given: whether the base reference is valid is
\* decided when a flat record is converted
Treefile_rebase(tf, new_refspec, custom_origin_url, custom_origin_description) ==
    [ tf |-> [tf EXCEPT !.refspec = new_refspec, !.custom_url = custom_origin_url,
                        !.custom_description = custom_origin_description],
      error |-> "",
      changed |-> <<tf.refspec, tf.custom_url, tf.custom_description>>
                     # <<new_refspec, custom_origin_url, custom_origin_description>> ]

Treefile_initramfs_etc_files_track(tf, paths) ==
    [ tf |-> [tf EXCEPT !.initramfs_etc = @ \cup Range(paths)],
      error |-> "", changed |-> ~(Range(paths) \subseteq tf.initramfs_etc) ]

Treefile_initramfs_etc_files_untrack(tf, paths) ==
    [ tf |-> [tf EXCEPT !.initramfs_etc = @ \ Range(paths)],
      error |-> "", changed |-> Range(paths) \cap tf.initramfs_etc # {} ]

Treefile_initramfs_etc_files_untrack_all(tf) ==
    [ tf |-> [tf EXCEPT !.initramfs_etc = {}], error |-> "", changed |-> tf.initramfs_etc # {} ]

Treefile_set_initramfs_regenerate(tf, regenerate, args) ==
    [ tf |-> [tf EXCEPT !.initramfs_regenerate = regenerate, !.initramfs_args = args],
      error |-> "",
      changed |-> <<tf.initramfs_regenerate, tf.initramfs_args>> # <<regenerate, args>> ]

\* the empty string clears the pinned commit
Treefile_set_override_commit(tf, checksum) ==
    [ tf |-> [tf EXCEPT !.override_commit = checksum],
      error |-> "", changed |-> tf.override_commit # checksum ]

Treefile_set_cliwrap(tf, cliwrap) ==
    [ tf |-> [tf EXCEPT !.cliwrap = cliwrap], error |-> "", changed |-> tf.cliwrap # cliwrap ]

\* enable_only toggles the enablement of the modules, else they are installed
Treefile_add_modules(tf, modules, enable_only) ==
    IF enable_only
    THEN [ tf |-> [tf EXCEPT !.modules_enable = @ \cup Range(modules)],
           error |-> "", changed |-> ~(Range(modules) \subseteq tf.modules_enable) ]
    ELSE [ tf |-> [tf EXCEPT !.modules_install = @ \cup Range(modules)],
           error |-> "", changed |-> ~(Range(modules) \subseteq tf.modules_install) ]

Treefile_remove_modules(tf, modules, enable_only) ==
    IF enable_only
    THEN [ tf |-> [tf EXCEPT !.modules_enable = @ \ Range(modules)],
           error |-> "", changed |-> Range(modules) \cap tf.modules_enable # {} ]
    ELSE [ tf |-> [tf EXCEPT !.modules_install = @ \ Range(modules)],
           error |-> "", changed |-> Range(modules) \cap tf.modules_install # {} ]

(***************************************************************************)
(* The caller's result variable of an operation with an out_changed        *)
(* parameter: ptr says whether the caller passed one, val is what it holds *)
(***************************************************************************)
OutParams == { [ptr |-> FALSE, val |-> FALSE],
               [ptr |-> TRUE, val |-> FALSE],
               [ptr |-> TRUE, val |-> TRUE] }

\* set_changed that stores c instead of accumulating it
set_changed_assign(out, c) == IF ~out.ptr THEN out ELSE [out EXCEPT !.val = c]

\* set_changed: no-op without a variable, else *out = *out || c
set_changed(out, c) == IF ~out.ptr THEN out ELSE [out EXCEPT !.val = out.val \/ c]

(***************************************************************************)
(* Structured-config-driven mutators.  r is the result of the treefile     *)
(* method, already applied to the boxed treefile or not at all.            *)
(***************************************************************************)
\* an add that reports success instead of change
AddBody_reports_success(h, origin, r, out_changed) ==
    IF r.error # ""
    THEN [heap |-> h, ret |-> FALSE, error |-> r.error, out |-> out_changed]
    ELSE LET h0 == [h EXCEPT ![h[origin].treefile].val = r.tf]
             h1 == IF r.changed THEN sync_origin(h0, origin) ELSE h0
         IN  [ heap |-> h1, ret |-> TRUE, error |-> "",
               out |-> IF out_changed.ptr THEN [out_changed EXCEPT !.val = TRUE]
                       ELSE out_changed ]

\* the common body of the three add operations:
\*   CXX_TRY_VAR (changed, treefile->add_... (packages, allow_existing), error);
\*   if (changed) sync_origin (origin);
\*   if (out_changed) *out_changed = changed;
AddBody(h, origin, r, out_changed) ==
    IF r.error # ""
    THEN [heap |-> h, ret |-> FALSE, error |-> r.error, out |-> out_changed]
    ELSE LET h0 == [h EXCEPT ![h[origin].treefile].val = r.tf]
             h1 == IF r.changed THEN sync_origin(h0, origin) ELSE h0
         IN  [ heap |-> h1, ret |-> TRUE, error |-> "",
               out |-> IF out_changed.ptr THEN [out_changed EXCEPT !.val = r.changed]
                       ELSE out_changed ]

rpmostree_origin_add_packages(h, origin, packages, allow_existing, out_changed) ==
    AddBody(h, origin,
            Treefile_add_packages(TreefileOf(h, origin), packages, allow_existing),
            out_changed)

rpmostree_origin_add_local_packages(h, origin, packages, allow_existing, out_changed) ==
    AddBody(h, origin,
            Treefile_add_local_packages(TreefileOf(h, origin), packages, allow_existing),
            out_changed)

rpmostree_origin_add_local_fileoverride_packages(h, origin, packages, allow_existing, out_changed) ==
    AddBody(h, origin,
            Treefile_add_local_fileoverride_packages(TreefileOf(h, origin), packages,
                                                     allow_existing),
            out_changed)

\* a body that changes the treefile and leaves the key file as it was
ChangedBody_no_sync(h, origin, r) ==
    [ heap |-> [h EXCEPT ![h[origin].treefile].val = r.tf], ret |-> r.changed, error |-> "" ]

\* auto changed = treefile->...; if (changed) sync_origin (origin); return changed;
ChangedBody(h, origin, r) ==
    LET h0 == [h EXCEPT ![h[origin].treefile].val = r.tf]
    IN  [ heap |-> IF r.changed THEN sync_origin(h0, origin) ELSE h0,
          ret |-> r.changed, error |-> "" ]

rpmostree_origin_remove_all_packages(h, origin) ==
    ChangedBody(h, origin, Treefile_remove_all_packages(TreefileOf(h, origin)))

rpmostree_origin_remove_override_remove(h, origin, package) ==
    ChangedBody(h, origin, Treefile_remove_package_override_remove(TreefileOf(h, origin), package))

rpmostree_origin_remove_override_replace_local(h, origin, package) ==
    ChangedBody(h, origin,
                Treefile_remove_package_override_replace_local(TreefileOf(h, origin), package))

rpmostree_origin_remove_all_overrides(h, origin) ==
    ChangedBody(h, origin, Treefile_remove_all_overrides(TreefileOf(h, origin)))

\* CXX_TRY (treefile->add_packages_override_... (packages), error);
\* sync_origin (origin); return TRUE;
OverrideBody(h, origin, r) ==
    IF r.error # "" THEN [heap |-> h, ret |-> FALSE, error |-> r.error]
    ELSE [ heap |-> sync_origin([h EXCEPT ![h[origin].treefile].val = r.tf], origin),
           ret |-> TRUE, error |-> "" ]

rpmostree_origin_add_override_remove(h, origin, packages) ==
    OverrideBody(h, origin,
                 Treefile_add_packages_override_remove(TreefileOf(h, origin), packages))

rpmostree_origin_add_override_replace_local(h, origin, packages) ==
    OverrideBody(h, origin,
                 Treefile_add_packages_override_replace_local(TreefileOf(h, origin), packages))

(***************************************************************************)
(* Rebase and auxiliary toggles                                            *)
(***************************************************************************)
\* a const char * argument: NULL or a string
NullString == [ptr |-> FALSE, val |-> ""]
String(s) == [ptr |-> TRUE, val |-> s]

\* p ?: d
Elvis(p, d) == IF p.ptr THEN p.val ELSE d

\* a void setter that regenerates the key file only when the treefile changed
SetBody_sync_if_changed(h, origin, r) ==
    LET h0 == [h EXCEPT ![h[origin].treefile].val = r.tf]
    IN  [ heap |-> IF r.changed THEN sync_origin(h0, origin) ELSE h0, void |-> TRUE ]

\* the body of the void setters: treefile->set_... (...); sync_origin (origin);
\* nothing is returned
SetBody(h, origin, r) ==
    [ heap |-> sync_origin([h EXCEPT ![h[origin].treefile].val = r.tf], origin), void |-> TRUE ]

rpmostree_origin_initramfs_etc_files_track(h, origin, paths) ==
    ChangedBody(h, origin, Treefile_initramfs_etc_files_track(TreefileOf(h, origin), paths))

rpmostree_origin_initramfs_etc_files_untrack(h, origin, paths) ==
    ChangedBody(h, origin, Treefile_initramfs_etc_files_untrack(TreefileOf(h, origin), paths))

rpmostree_origin_initramfs_etc_files_untrack_all(h, origin) ==
    ChangedBody(h, origin, Treefile_initramfs_etc_files_untrack_all(TreefileOf(h, origin)))

rpmostree_origin_set_regenerate_initramfs(h, origin, regenerate, args) ==
    SetBody(h, origin, Treefile_set_initramfs_regenerate(TreefileOf(h, origin), regenerate, args))

rpmostree_origin_set_override_commit(h, origin, checksum) ==
    SetBody(h, origin, Treefile_set_override_commit(TreefileOf(h, origin), Elvis(checksum, "")))

rpmostree_origin_set_cliwrap(h, origin, cliwrap) ==
    SetBody(h, origin, Treefile_set_cliwrap(TreefileOf(h, origin), cliwrap))

\* a rebase that keeps the custom URL and description it is not given
rpmostree_origin_set_rebase_custom_keeps(h, origin, new_refspec, custom_origin_url, custom_origin_description) ==
    SetBody(h, origin,
            Treefile_rebase(TreefileOf(h, origin), new_refspec,
                            Elvis(custom_origin_url, TreefileOf(h, origin).custom_url),
                            Elvis(custom_origin_description,
                                  TreefileOf(h, origin).custom_description)))

rpmostree_origin_set_rebase_custom(h, origin, new_refspec, custom_origin_url, custom_origin_description) ==
    SetBody(h, origin,
            Treefile_rebase(TreefileOf(h, origin), new_refspec,
                            Elvis(custom_origin_url, ""),
                            Elvis(custom_origin_description, "")))

rpmostree_origin_set_rebase(h, origin, new_refspec) ==
    rpmostree_origin_set_rebase_custom(h, origin, new_refspec, NullString, NullString)

rpmostree_origin_add_modules(h, origin, modules, enable_only) ==
    ChangedBody(h, origin, Treefile_add_modules(TreefileOf(h, origin), modules, enable_only))

rpmostree_origin_remove_modules(h, origin, modules, enable_only) ==
    ChangedBody(h, origin, Treefile_remove_modules(TreefileOf(h, origin), modules, enable_only))

(***************************************************************************)
(* Cache-driven removal: rpmostree_origin_remove_packages and its helpers  *)
(***************************************************************************)
\* g_key_file_set_string_list with the keys of values, as iterated
update_string_list_from_hash_table(kf, key, values, iter) ==
    g_key_file_set_string_list(kf, key, Iterate(values, iter))

\* a write-back that writes an empty cache as an empty list
update_keyfile_pkgs_from_cache_writes_empty(kf, key, pkgs, has_csum, iter) ==
    IF has_csum
    THEN LET keys == Iterate(pkgs, iter)
         IN  g_key_file_set_string_list(kf, key,
                 [i \in 1..Len(keys) |-> Token(pkgs[keys[i]], keys[i])])
    ELSE update_string_list_from_hash_table(kf, key, pkgs, iter)

update_keyfile_pkgs_from_cache(kf, key, pkgs, has_csum, iter) ==
    IF Cardinality(DOMAIN pkgs) = 0 THEN g_key_file_remove_key(kf, key)
    ELSE IF has_csum
         THEN LET keys == Iterate(pkgs, iter)
              IN  g_key_file_set_string_list(kf, key,
                      [i \in 1..Len(keys) |-> Token(pkgs[keys[i]], keys[i])])
         ELSE update_string_list_from_hash_table(kf, key, pkgs, iter)

\* name -> nevra over the keys of nevras, a later key of the iteration
\* replacing an earlier one of the same name; fails on a key that is no NEVRA
RECURSIVE name_map_of(_, _)
name_map_of(keys, acc) ==
    IF keys = <<>> THEN [ok |-> TRUE, map |-> acc]
    ELSE IF ~IsNevra(Head(keys)) THEN [ok |-> FALSE, map |-> acc]
    ELSE name_map_of(Tail(keys), g_hash_table_replace(acc, NevraName(Head(keys)), Head(keys)))

build_name_to_nevra_map(nevras, iter) == name_map_of(Iterate(nevras, iter), EmptyTable)

\* the argument of remove-packages: a NULL array or a list of identifiers
NullPackages == [ptr |-> FALSE, list |-> <<>>]
PackageList(list) == [ptr |-> TRUE, list |-> list]

\* the locals of the loop, over the three caches it edits in place
LoopInit(h, origin) ==
    [ status |-> "run", error |-> "", error_arg |-> <<>>,
      cached_local_packages |-> CacheOf(h, origin, "cached_local_packages"),
      cached_local_fileoverride_packages |->
          CacheOf(h, origin, "cached_local_fileoverride_packages"),
      cached_packages |-> CacheOf(h, origin, "cached_packages"),
      changed |-> FALSE, local_changed |-> FALSE, local_fileoverride_changed |-> FALSE,
      have_maps |-> FALSE, name_to_nevra |-> EmptyTable,
      name_to_nevra_fileoverride |-> EmptyTable,
      trace |-> <<>> ]

\* what one iteration did, for the record of the call
Visit(st, package, how) ==
    [st EXCEPT !.trace = Append(@, [ package |-> package, how |-> how,
                                     cached_local_packages |-> st.cached_local_packages,
                                     cached_local_fileoverride_packages |->
                                         st.cached_local_fileoverride_packages,
                                     cached_packages |-> st.cached_packages ])]

\* the else branch of the loop body, once the name maps exist
ByName(st, package, allow_noent) ==
    IF g_hash_table_contains(st.name_to_nevra, package)
    THEN LET nevra == st.name_to_nevra[package]
         IN  IF g_hash_table_contains(st.cached_local_packages, nevra)
             THEN Visit([st EXCEPT !.cached_local_packages = g_hash_table_remove(@, nevra),
                                   !.local_changed = TRUE],
                        package, "local-name")
             ELSE Visit([st EXCEPT !.status = "abort"], package, "abort")
    ELSE IF g_hash_table_contains(st.name_to_nevra_fileoverride, package)
    THEN LET nevra == st.name_to_nevra_fileoverride[package]
         IN  IF g_hash_table_contains(st.cached_local_fileoverride_packages, nevra)
             THEN Visit([st EXCEPT !.cached_local_fileoverride_packages =
                                       g_hash_table_remove(@, nevra),
                                   !.local_fileoverride_changed = TRUE],
                        package, "fileoverride-name")
             ELSE Visit([st EXCEPT !.status = "abort"], package, "abort")
    ELSE IF ~allow_noent
    THEN Visit([st EXCEPT !.status = "error", !.error = "NotRequested",
                          !.error_arg = package],
               package, "error")
    ELSE Visit(st, package, "skip")

LoopBody(st, package, allow_noent, iter) ==
    IF g_hash_table_contains(st.cached_local_packages, package)
    THEN Visit([st EXCEPT !.cached_local_packages = g_hash_table_remove(@, package),
                          !.local_changed = TRUE],
               package, "local")
    ELSE IF g_hash_table_contains(st.cached_local_fileoverride_packages, package)
    THEN Visit([st EXCEPT !.cached_local_fileoverride_packages = g_hash_table_remove(@, package),
                          !.local_fileoverride_changed = TRUE],
               package, "fileoverride")
    ELSE IF g_hash_table_contains(st.cached_packages, package)
    THEN Visit([st EXCEPT !.cached_packages = g_hash_table_remove(@, package),
                          !.changed = TRUE],
               package, "remote")
    ELSE IF st.have_maps THEN ByName(st, package, allow_noent)
    ELSE LET m1 == build_name_to_nevra_map(st.cached_local_packages, iter)
             m2 == build_name_to_nevra_map(st.cached_local_fileoverride_packages, iter)
         IN  IF ~m1.ok \/ ~m2.ok
             THEN Visit([st EXCEPT !.status = "error", !.error = "MalformedPackageSpecifier",
                                   !.error_arg = package],
                        package, "error")
             ELSE ByName([st EXCEPT !.have_maps = TRUE, !.name_to_nevra = m1.map,
                                    !.name_to_nevra_fileoverride = m2.map],
                         package, allow_noent)

RECURSIVE Loop(_, _, _, _)
Loop(st, packages, allow_noent, iter) ==
    IF packages = <<>> \/ st.status # "run" THEN st
    ELSE Loop(LoopBody(st, Head(packages), allow_noent, iter), Tail(packages), allow_noent, iter)

\* the caches as the loop left them, stored back where the origin keeps them
StoreCaches(h, origin, st) ==
    [h EXCEPT ![h[origin].cached_local_packages].val = st.cached_local_packages,
              ![h[origin].cached_local_fileoverride_packages].val =
                  st.cached_local_fileoverride_packages,
              ![h[origin].cached_packages].val = st.cached_packages]

\* the write-backs made, in the order of the code: the keys written
WriteLog(st) ==
    (IF st.changed THEN <<K_requested>> ELSE <<>>)
    \o (IF st.local_changed THEN <<K_requested_local>> ELSE <<>>)
    \o (IF st.local_fileoverride_changed THEN <<K_requested_local_fileoverride>> ELSE <<>>)

\* write-backs that rewrite all three sections whenever one cache changed
WriteBack_all_sections(h, origin, st, iter) ==
    IF ~(st.changed \/ st.local_changed \/ st.local_fileoverride_changed) THEN h
    ELSE LET kf0 == KeyFileOf(h, origin)
             kf1 == update_keyfile_pkgs_from_cache(kf0, K_requested, st.cached_packages,
                                                   FALSE, iter)
             kf2 == update_keyfile_pkgs_from_cache(kf1, K_requested_local,
                                                   st.cached_local_packages, TRUE, iter)
             kf3 == update_keyfile_pkgs_from_cache(kf2, K_requested_local_fileoverride,
                                                   st.cached_local_fileoverride_packages,
                                                   TRUE, iter)
         IN  [h EXCEPT ![h[origin].kf].val = kf3]

\* the three conditional write-backs of sections to origin->kf
WriteBack(h, origin, st, iter) ==
    LET kf0 == KeyFileOf(h, origin)
        kf1 == IF st.changed
               THEN update_keyfile_pkgs_from_cache(kf0, K_requested, st.cached_packages,
                                                   FALSE, iter)
               ELSE kf0
        kf2 == IF st.local_changed
               THEN update_keyfile_pkgs_from_cache(kf1, K_requested_local,
                                                   st.cached_local_packages, TRUE, iter)
               ELSE kf1
        kf3 == IF st.local_fileoverride_changed
               THEN update_keyfile_pkgs_from_cache(kf2, K_requested_local_fileoverride,
                                                   st.cached_local_fileoverride_packages,
                                                   TRUE, iter)
               ELSE kf2
    IN  [h EXCEPT ![h[origin].kf].val = kf3]

rpmostree_origin_remove_packages(h, origin, packages, allow_noent, out_changed, iter) ==
    IF ~packages.ptr
    THEN [ heap |-> h, ret |-> TRUE, error |-> "", error_arg |-> <<>>, out |-> out_changed,
           abort |-> FALSE, threw |-> FALSE, trace |-> <<>>, log |-> <<>> ]
    ELSE LET st == Loop(LoopInit(h, origin), packages.list, allow_noent, iter)
             h0 == StoreCaches(h, origin, st)
         IN  IF st.status # "run"
             THEN [ heap |-> h0, ret |-> FALSE, error |-> st.error, error_arg |-> st.error_arg,
                    out |-> out_changed, abort |-> st.status = "abort", threw |-> FALSE,
                    trace |-> st.trace, log |-> <<>> ]
             ELSE LET h1 == WriteBack(h0, origin, st, iter)
                      any_changed == st.changed \/ st.local_changed
                                        \/ st.local_fileoverride_changed
                      r == IF any_changed THEN sync_treefile(h1, origin)
                           ELSE [heap |-> h1, threw |-> FALSE]
                  IN  [ heap |-> r.heap, ret |-> ~r.threw,
                        error |-> IF r.threw THEN "ConversionError" ELSE "",
                        error_arg |-> <<>>,
                        out |-> set_changed(out_changed, any_changed),
                        abort |-> FALSE, threw |-> r.threw, trace |-> st.trace,
                        log |-> WriteLog(st) \o (IF any_changed THEN <<"sync_treefile">>
                                                 ELSE <<>>) ]

(***************************************************************************)
(* State                                                                   *)
(***************************************************************************)
VARIABLES
    heap,   \* the heap: origins, key files, treefiles, hash tables
    pc,     \* the caller: "idle" between calls, "returned" holding a result
    last,   \* the call that returned: arguments, result, the state before it
    prev    \* the successful add the caller made just before, if any

vars == <<heap, pc, last, prev>>

\* the value stored in cell a when it holds an object of the kind, else nothing
Deref(h, a, kind) == IF a # NULL /\ h[a].kind = kind THEN h[a].val ELSE <<>>

\* the cells an origin points at
Owned(h, o) == { h[o].treefile, h[o].kf } \cup { h[o][CacheFields[i]] : i \in DOMAIN CacheFields }

\* every pointer of the origin leads to a live object of the right kind
Intact(h, o) ==
    /\ h[o].treefile # NULL /\ h[h[o].treefile].kind = "tf"
    /\ h[o].kf # NULL /\ h[h[o].kf].kind = "kf"
    /\ \A i \in DOMAIN CacheFields :
          h[o][CacheFields[i]] # NULL /\ h[h[o][CacheFields[i]]].kind = "ht"

\* what an origin holds, by value
View(h, o) ==
    [ refcount |-> h[o].refcount,
      intact |-> Intact(h, o),
      treefile |-> Deref(h, h[o].treefile, "tf"),
      kf |-> Deref(h, h[o].kf, "kf"),
      cached_packages |-> Deref(h, h[o].cached_packages, "ht"),
      cached_local_packages |-> Deref(h, h[o].cached_local_packages, "ht"),
      cached_local_fileoverride_packages |->
          Deref(h, h[o].cached_local_fileoverride_packages, "ht"),
      cached_overrides_local_replace |-> Deref(h, h[o].cached_overrides_local_replace, "ht"),
      cached_overrides_remove |-> Deref(h, h[o].cached_overrides_remove, "ht") ]

Views(h) == [o \in Origins(h) |-> View(h, o)]

NoOut == [ptr |-> FALSE, val |-> FALSE]

\* the record of a call; an operation fills in the fields it has
Call(op, origin, h) ==
    [ op |-> op, origin |-> origin, pre |-> Views(h),
      owned |-> [o \in Origins(h) |-> Owned(h, o)],
      packages |-> <<>>, null_packages |-> FALSE, flag |-> FALSE,
      out_in |-> NoOut, out |-> NoOut,
      ret |-> TRUE, ret_origin |-> NULL, changed |-> FALSE,
      error |-> "", error_arg |-> <<>>,
      abort |-> FALSE, trace |-> <<>>,
      void |-> FALSE, args |-> <<>>, input |-> <<>>, log |-> <<>>, others |-> {} ]

\* sequences over S of length at most n
SeqsUpTo(S, n) == UNION {[1..k -> S] : k \in 0..n}

Reverse(s) == [i \in DOMAIN s |-> s[Len(s) + 1 - i]]

\* the iteration orders of the hash tables explored: ascending and descending
IterOrders == {PkgOrder, Reverse(PkgOrder)}

(***************************************************************************)
(* Inputs                                                                  *)
(***************************************************************************)
Refspecs == {"fedora:stable"}

\* the flat records handed to rpmostree_origin_parse_keyfile
FlatRecord(refspec, requested, local, fileoverride, ovremove, ovreplace) ==
    SetSection(SetSection(SetSection(SetSection(SetSection(
        (K_refspec :> refspec),
        K_requested, requested),
        K_requested_local, local),
        K_requested_local_fileoverride, fileoverride),
        K_overrides_remove, ovremove),
        K_overrides_replace_local, ovreplace)

InitRequested == {<<>>, <<vim, foo, bar>>}
InitLocal == {<<>>, <<Token("h1", foo_1)>>}
InitFileoverride == {<<>>, <<Token("h1", foo_2)>>}

FlatInputs ==
    { FlatRecord(r, a, b, c, <<>>, <<>>) : r \in Refspecs, a \in InitRequested,
                                           b \in InitLocal, c \in InitFileoverride }

\* identifiers handed to the add and remove operations
AddNames == {foo}
AddTokens == {Token("h1", foo_1)}
AddFileoverrideTokens == {Token("h1", foo_2)}
RemoveIds == {foo, vim, foo_1}
OverrideNames == {bar}
OverrideTokens == {Token("h1", bar_1)}

\* arguments of the rebase and of the auxiliary toggles
NewRefspecs == {"fedora:next", ""}
CustomUrls == {NullString, String("https://example.org/os")}
CustomDescriptions == {NullString, String("custom build")}
Paths == {"/etc/fstab"}
Modules == {"nodejs:16"}
InitramfsArgs == {<<>>, <<"-I">>}
Checksums == {NullString, String(""), String("abc123")}

\* the inputs of the runs with several origins
SharedInputs == { FlatRecord(r, <<vim>>, <<>>, <<>>, <<>>, <<>>) : r \in Refspecs }
SharedAddNames == {foo}
SharedRemoveIds == {vim}

(***************************************************************************)
(* Initial state: one origin, parsed from a flat record                    *)
(***************************************************************************)
NoCall == Call("", NULL, EmptyHeap)
NoPrev == [op |-> "", origin |-> NULL, packages |-> <<>>, kf |-> <<>>]

ParsedFrom(inputs) ==
    \E input \in inputs :
        \E r \in {rpmostree_origin_parse_keyfile(EmptyHeap, input)} :
            /\ heap = r.heap
            /\ pc = "returned"
            /\ last = [Call("parse_keyfile", r.ret, EmptyHeap) EXCEPT
                           !.ret = r.ret # NULL, !.ret_origin = r.ret, !.error = r.error,
                           !.input = input]
            /\ prev = NoPrev

Init == ParsedFrom(FlatInputs)

\* a call is made by an idle caller on an origin it holds
Live(o) == pc = "idle" /\ o \in Origins(heap)

AddOps == {"add_packages", "add_local_packages", "add_local_fileoverride_packages"}

\* the caller takes the result of the call; of the call itself it keeps, for
\* the next one, a successful add of one identifier and the flat record the
\* add started from
Return ==
    /\ pc = "returned" /\ ~last.abort
    /\ pc' = "idle"
    /\ last' = NoCall
    /\ prev' = IF last.op \in AddOps /\ last.ret /\ Len(last.packages) = 1 /\ last.changed
               THEN [op |-> last.op, origin |-> last.origin, packages |-> last.packages,
                     kf |-> last.pre[last.origin].kf]
               ELSE NoPrev
    /\ heap' = heap

\* cells left for the allocations of a call
Spare(n) == Cardinality(FreeAddrs(heap)) >= n

(***************************************************************************)
(* Actions: one per public operation                                       *)
(***************************************************************************)
Returned(call) == pc' = "returned" /\ last' = call /\ prev' = prev

Changed(h, o) == o \notin Origins(h) \/ View(h, o) # View(heap, o)

AddCall(op, o, r, packages, allow_existing, out_changed) ==
    /\ heap' = r.heap
    /\ Returned([Call(op, o, heap) EXCEPT !.packages = packages, !.flag = allow_existing,
                                          !.out_in = out_changed, !.out = r.out,
                                          !.ret = r.ret, !.error = r.error,
                                          !.changed = Changed(r.heap, o)])

AddPackages(o, names, outs) ==
    /\ Live(o) /\ Spare(1)
    /\ \E packages \in SeqsUpTo(names, MaxAddLen), allow_existing \in BOOLEAN,
          out_changed \in outs :
          AddCall("add_packages", o,
                  rpmostree_origin_add_packages(heap, o, packages, allow_existing, out_changed),
                  packages, allow_existing, out_changed)

AddLocalPackages(o, tokens, outs) ==
    /\ Live(o) /\ Spare(1)
    /\ \E packages \in SeqsUpTo(tokens, MaxAddLen), allow_existing \in BOOLEAN,
          out_changed \in outs :
          AddCall("add_local_packages", o,
                  rpmostree_origin_add_local_packages(heap, o, packages, allow_existing,
                                                      out_changed),
                  packages, allow_existing, out_changed)

AddLocalFileoverridePackages(o, tokens, outs) ==
    /\ Live(o) /\ Spare(1)
    /\ \E packages \in SeqsUpTo(tokens, MaxAddLen), allow_existing \in BOOLEAN,
          out_changed \in outs :
          AddCall("add_local_fileoverride_packages", o,
                  rpmostree_origin_add_local_fileoverride_packages(heap, o, packages,
                                                                   allow_existing, out_changed),
                  packages, allow_existing, out_changed)

RemovePackagesCall(o, r, packages, allow_noent, out_changed) ==
    /\ heap' = r.heap
    /\ Returned([Call("remove_packages", o, heap) EXCEPT
                    !.packages = packages.list, !.null_packages = ~packages.ptr,
                    !.flag = allow_noent, !.out_in = out_changed, !.out = r.out,
                    !.ret = r.ret, !.error = r.error, !.error_arg = r.error_arg,
                    !.abort = r.abort, !.trace = r.trace, !.log = r.log,
                    !.changed = Changed(r.heap, o)])

RemovePackages(o, ids, outs) ==
    /\ Live(o) /\ Spare(1)
    /\ \E packages \in {NullPackages} \cup {PackageList(l) : l \in SeqsUpTo(ids, MaxRemoveLen)},
          allow_noent \in BOOLEAN, out_changed \in outs :
          \E r \in { rpmostree_origin_remove_packages(heap, o, packages, allow_noent,
                                                      out_changed, iter) : iter \in IterOrders } :
              RemovePackagesCall(o, r, packages, allow_noent, out_changed)

SimpleCall(op, o, r, packages) ==
    /\ heap' = r.heap
    /\ Returned([Call(op, o, heap) EXCEPT !.packages = packages, !.ret = r.ret,
                                          !.error = r.error,
                                          !.changed = Changed(r.heap, o)])

RemoveAllPackages(o) ==
    /\ Live(o) /\ Spare(1)
    /\ SimpleCall("remove_all_packages", o, rpmostree_origin_remove_all_packages(heap, o), <<>>)

AddOverrideRemove(o) ==
    /\ Live(o) /\ Spare(1)
    /\ \E packages \in SeqsUpTo(OverrideNames, MaxAddLen) :
          SimpleCall("add_override_remove", o,
                     rpmostree_origin_add_override_remove(heap, o, packages), packages)

AddOverrideReplaceLocal(o) ==
    /\ Live(o) /\ Spare(1)
    /\ \E packages \in SeqsUpTo(OverrideTokens, MaxAddLen) :
          SimpleCall("add_override_replace_local", o,
                     rpmostree_origin_add_override_replace_local(heap, o, packages), packages)

RemoveOverrideRemove(o) ==
    /\ Live(o) /\ Spare(1)
    /\ \E package \in OverrideNames :
          SimpleCall("remove_override_remove", o,
                     rpmostree_origin_remove_override_remove(heap, o, package), <<package>>)

RemoveOverrideReplaceLocal(o) ==
    /\ Live(o) /\ Spare(1)
    /\ \E package \in {TokenNevra(t) : t \in OverrideTokens} :
          SimpleCall("remove_override_replace_local", o,
                     rpmostree_origin_remove_override_replace_local(heap, o, package),
                     <<package>>)

RemoveAllOverrides(o) ==
    /\ Live(o) /\ Spare(1)
    /\ SimpleCall("remove_all_overrides", o, rpmostree_origin_remove_all_overrides(heap, o), <<>>)

\* the operations below read *origin->treefile: on a disengaged treefile that
\* is undefined, and no such call is explored
Engaged(o) == Live(o) /\ heap[o].treefile # NULL

\* a call of an operation that returns whether it changed something
BoolCall(op, o, r, args) ==
    /\ heap' = r.heap
    /\ Returned([Call(op, o, heap) EXCEPT !.args = args, !.ret = r.ret, !.error = r.error,
                                          !.changed = Changed(r.heap, o)])

\* a call of an operation that returns nothing
VoidCall(op, o, r, args) ==
    /\ heap' = r.heap
    /\ Returned([Call(op, o, heap) EXCEPT !.args = args, !.void = r.void,
                                          !.changed = Changed(r.heap, o)])

InitramfsEtcFilesTrack(o) ==
    /\ Engaged(o) /\ Spare(1)
    /\ \E paths \in SeqsUpTo(Paths, MaxAddLen) :
          BoolCall("initramfs_etc_files_track", o,
                   rpmostree_origin_initramfs_etc_files_track(heap, o, paths), <<paths>>)

InitramfsEtcFilesUntrack(o) ==
    /\ Engaged(o) /\ Spare(1)
    /\ \E paths \in SeqsUpTo(Paths, MaxAddLen) :
          BoolCall("initramfs_etc_files_untrack", o,
                   rpmostree_origin_initramfs_etc_files_untrack(heap, o, paths), <<paths>>)

InitramfsEtcFilesUntrackAll(o) ==
    /\ Engaged(o) /\ Spare(1)
    /\ BoolCall("initramfs_etc_files_untrack_all", o,
                rpmostree_origin_initramfs_etc_files_untrack_all(heap, o), <<>>)

SetRegenerateInitramfs(o) ==
    /\ Engaged(o) /\ Spare(1)
    /\ \E regenerate \in BOOLEAN, args \in InitramfsArgs :
          VoidCall("set_regenerate_initramfs", o,
                   rpmostree_origin_set_regenerate_initramfs(heap, o, regenerate, args),
                   <<regenerate, args>>)

SetOverrideCommit(o) ==
    /\ Engaged(o) /\ Spare(1)
    /\ \E checksum \in Checksums :
          VoidCall("set_override_commit", o,
                   rpmostree_origin_set_override_commit(heap, o, checksum), <<checksum>>)

SetCliwrap(o) ==
    /\ Engaged(o) /\ Spare(1)
    /\ \E cliwrap \in BOOLEAN :
          VoidCall("set_cliwrap", o, rpmostree_origin_set_cliwrap(heap, o, cliwrap), <<cliwrap>>)

AddModules(o) ==
    /\ Engaged(o) /\ Spare(1)
    /\ \E modules \in SeqsUpTo(Modules, MaxAddLen), enable_only \in BOOLEAN :
          BoolCall("add_modules", o, rpmostree_origin_add_modules(heap, o, modules, enable_only),
                   <<modules, enable_only>>)

RemoveModules(o) ==
    /\ Engaged(o) /\ Spare(1)
    /\ \E modules \in SeqsUpTo(Modules, MaxAddLen), enable_only \in BOOLEAN :
          BoolCall("remove_modules", o,
                   rpmostree_origin_remove_modules(heap, o, modules, enable_only),
                   <<modules, enable_only>>)

SetRebaseCustom(o) ==
    /\ Engaged(o) /\ Spare(1)
    /\ \E new_refspec \in NewRefspecs, url \in CustomUrls, description \in CustomDescriptions :
          VoidCall("set_rebase_custom", o,
                   rpmostree_origin_set_rebase_custom(heap, o, new_refspec, url, description),
                   <<new_refspec, url, description>>)

SetRebase(o) ==
    /\ Engaged(o) /\ Spare(1)
    /\ \E new_refspec \in NewRefspecs :
          VoidCall("set_rebase", o, rpmostree_origin_set_rebase(heap, o, new_refspec),
                   <<new_refspec, NullString, NullString>>)

\* what a remove-packages call leaves and returns
Outcome(r, o) == [ret |-> r.ret, error |-> r.error, abort |-> r.abort, view |-> View(r.heap, o)]

\* a remove-packages call, recorded with the outcomes the same call has from
\* the same state under each iteration order of the hash tables
RemovePackagesRuns(o, ids) ==
    /\ Live(o) /\ Spare(1)
    /\ \E packages \in {PackageList(l) : l \in SeqsUpTo(ids, MaxRemoveLen)},
          allow_noent \in BOOLEAN, iter \in IterOrders :
          \E r \in {rpmostree_origin_remove_packages(heap, o, packages, allow_noent, NoOut, iter)} :
              /\ heap' = r.heap
              /\ Returned([Call("remove_packages", o, heap) EXCEPT
                              !.packages = packages.list, !.flag = allow_noent,
                              !.ret = r.ret, !.error = r.error, !.error_arg = r.error_arg,
                              !.abort = r.abort, !.trace = r.trace, !.log = r.log,
                              !.changed = Changed(r.heap, o),
                              !.others =
                                  { Outcome(rpmostree_origin_remove_packages(
                                                heap, o, packages, allow_noent, NoOut, it), o)
                                    : it \in IterOrders }])

\* sharing: duplicate, acquire, release
Dup(o) ==
    /\ Live(o) /\ Spare(ParseCells + 1)
    /\ \E r \in {rpmostree_origin_dup(heap, o)} :
           /\ heap' = r.heap
           /\ Returned([Call("dup", o, heap) EXCEPT !.ret = r.ret # NULL, !.ret_origin = r.ret,
                                                    !.abort = r.abort])

Ref(o) ==
    /\ Live(o) /\ heap[o].refcount < MaxRefcount
    /\ \E r \in {rpmostree_origin_ref(heap, o)} :
           /\ heap' = r.heap
           /\ Returned([Call("ref", o, heap) EXCEPT !.ret_origin = r.ret, !.abort = r.abort,
                                                    !.changed = TRUE])

Unref(o) ==
    /\ Live(o)
    /\ \E r \in {rpmostree_origin_unref(heap, o)} :
           /\ heap' = r.heap
           /\ Returned([Call("unref", o, heap) EXCEPT !.abort = r.abort, !.changed = TRUE])

(***************************************************************************)
(* Specifications                                                          *)
(***************************************************************************)
\* one origin and the package operations on it
Next ==
    \/ Return
    \/ \E o \in Addr :
        \/ AddPackages(o, AddNames, OutParams)
        \/ AddLocalPackages(o, AddTokens, OutParams)
        \/ AddLocalFileoverridePackages(o, AddFileoverrideTokens, OutParams)
        \/ RemovePackages(o, RemoveIds, OutParams)
        \/ RemoveAllPackages(o)

Spec == Init /\ [][Next]_vars

\* several origins: duplicates and shared references of one record
InitShared == ParsedFrom(SharedInputs)

NextShared ==
    \/ Return
    \/ \E o \in Addr :
        \/ Dup(o)
        \/ Ref(o)
        \/ Unref(o)
        \/ AddPackages(o, SharedAddNames, {NoOut})
        \/ RemovePackages(o, SharedRemoveIds, {NoOut})

SpecShared == InitShared /\ [][NextShared]_vars

\* one origin with overrides: the override operations, and the cache-driven
\* removal next to them
OverrideInputs ==
    { FlatRecord(r, a, <<>>, <<>>, d, e) : r \in Refspecs, a \in {<<>>, <<vim, foo, bar>>},
                                           d \in {<<>>, <<bar>>},
                                           e \in {<<>>, <<Token("h1", bar_1)>>} }

InitOverrides == ParsedFrom(OverrideInputs)

NextOverrides ==
    \/ Return
    \/ \E o \in Addr :
        \/ AddOverrideRemove(o)
        \/ AddOverrideReplaceLocal(o)
        \/ RemoveOverrideRemove(o)
        \/ RemoveOverrideReplaceLocal(o)
        \/ RemoveAllOverrides(o)
        \/ RemovePackages(o, {vim}, {NoOut})

SpecOverrides == InitOverrides /\ [][NextOverrides]_vars

\* construction: flat records of every shape, also ones that lack the base
\* reference or hold a token without its "<hash>:" part
BareToken == <<foo_1>>

ParseRequested == {<<>>, <<vim, foo, bar>>, <<foo, vim>>}
ParseLocal == {<<>>, <<Token("h1", foo_1)>>, <<Token("h1", foo_1), BareToken>>}
ParseFileoverride == {<<>>, <<Token("h1", foo_2)>>, <<BareToken>>}
ParseOverridesRemove == {<<>>, <<bar>>}
ParseOverridesReplace == {<<>>, <<Token("h1", bar_1)>>, <<BareToken, Token("h1", bar_1)>>}

ParseInputs ==
    { g_key_file_remove_key(FlatRecord("", <<vim>>, <<>>, <<>>, <<>>, <<>>), K_refspec) }
    \cup { FlatRecord(r, a, b, c, d, e) : r \in Refspecs, a \in ParseRequested, b \in ParseLocal,
                                          c \in ParseFileoverride, d \in ParseOverridesRemove,
                                          e \in ParseOverridesReplace }

InitParse == ParsedFrom(ParseInputs)

NextParse ==
    \/ Return
    \/ \E o \in Addr :
        \/ Dup(o)
        \/ Unref(o)

SpecParse == InitParse /\ [][NextParse]_vars

\* one origin, the auxiliary toggles and the cache-driven removal
ToggleInputs == { FlatRecord(r, a, <<>>, <<>>, <<>>, <<>>) : r \in Refspecs,
                                                            a \in {<<>>, <<vim, foo, bar>>} }

InitToggles == ParsedFrom(ToggleInputs)

NextToggles ==
    \/ Return
    \/ \E o \in Addr :
        \/ InitramfsEtcFilesTrack(o)
        \/ InitramfsEtcFilesUntrack(o)
        \/ InitramfsEtcFilesUntrackAll(o)
        \/ SetRegenerateInitramfs(o)
        \/ SetOverrideCommit(o)
        \/ SetCliwrap(o)
        \/ AddModules(o)
        \/ RemoveModules(o)
        \/ RemovePackages(o, {vim}, {NoOut})

SpecToggles == InitToggles /\ [][NextToggles]_vars

\* one origin, the rebase and the cache-driven removal
InitRebase == ParsedFrom(ToggleInputs)
RebaseRemoveIds == {vim, foo}

NextRebase ==
    \/ Return
    \/ \E o \in Addr :
        \/ SetRebase(o)
        \/ SetRebaseCustom(o)
        \/ RemovePackages(o, RebaseRemoveIds, {NoOut})

SpecRebase == InitRebase /\ [][NextRebase]_vars

\* one origin whose buckets overlap: foo requested by name and by two exact
\* identifiers; the removal under every iteration order
RunInputs ==
    { FlatRecord(r, a, b, c, <<>>, <<>>) :
        r \in Refspecs, a \in InitRequested,
        b \in {<<>>, <<Token("h1", foo_1), Token("h1", foo_2)>>},
        c \in {<<>>, <<Token("h1", foo_2)>>} }
RunRemoveIds == {foo, foo_1, vim}

InitRuns == ParsedFrom(RunInputs)

NextRuns ==
    \/ Return
    \/ \E o \in Addr : RemovePackagesRuns(o, RunRemoveIds)

SpecRuns == InitRuns /\ [][NextRuns]_vars

(***************************************************************************)
(* Properties                                                              *)
(***************************************************************************)
\* the state of the origin of the returned call, after and before the call
Post == View(heap, last.origin)
Pre == last.pre[last.origin]

Returns(op) == pc = "returned" /\ last.op = op

\* the contents a cache has when it is parsed from its section of kf
Section(kf, key, has_sha256) == parse_packages_strv(kf, key, has_sha256, EmptyTable).ht

Faithful(v) ==
    /\ v.cached_packages = Section(v.kf, K_requested, FALSE)
    /\ v.cached_local_packages = Section(v.kf, K_requested_local, TRUE)
    /\ v.cached_local_fileoverride_packages = Section(v.kf, K_requested_local_fileoverride, TRUE)
    /\ v.cached_overrides_remove = Section(v.kf, K_overrides_remove, FALSE)
    /\ v.cached_overrides_local_replace = Section(v.kf, K_overrides_replace_local, TRUE)

\* C1 (cache fidelity): after parsing, and after every successful mutation of
\* an origin whose caches mirrored its flat record, each of the five caches
\* holds exactly the contents of its section of the flat record.
C1_CacheFidelity ==
    /\ Returns("parse_keyfile") /\ last.ret => Faithful(Post)
    /\ pc = "returned" /\ last.ret /\ last.origin \in Origins(heap)
          /\ last.origin \in DOMAIN last.pre /\ Faithful(Pre)
       => Faithful(Post)

\* the two representations of an origin agree in one direction or the other
Closed(v) ==
    /\ v.intact
    /\ \/ v.kf = treefile_to_origin(v.treefile)
       \/ Convertible(v.kf) /\ v.treefile = origin_to_treefile(v.kf)

\* C2 (round-trip closure): between operations, whatever calls were made and
\* whether they succeeded, the flat record of every origin is what the adapter
\* produces from its structured config, or the structured config is what the
\* adapter produces from the flat record.
C2_RoundTripClosure == \A o \in Origins(heap) : Closed(View(heap, o))

\* C3 (no partial mutation): a remove-packages call that fails with
\* NotRequested leaves the flat record, the structured config and the five
\* caches as they were before the call.
C3_FailedRemoveChangesNothing ==
    Returns("remove_packages") /\ ~last.ret /\ last.error = "NotRequested" => Post = Pre

\* the identifier an add operation was given: the name, or the NEVRA of a token
AddedId(op, package) == IF op = "add_packages" THEN package ELSE TokenNevra(package)

\* C4 (add/remove inverse): a successful add of one identifier that was not
\* requested, followed at once by remove-packages of that identifier, succeeds
\* and leaves the flat record the add started from.
C4_AddThenRemoveRestores ==
    Returns("remove_packages") /\ prev.op \in AddOps /\ prev.origin = last.origin
        /\ ~last.null_packages
        /\ last.packages = <<AddedId(prev.op, prev.packages[1])>>
    => last.ret /\ Post.kf = prev.kf

(***************************************************************************)
(* remove-packages, step by step.  The caches are taken in the order the   *)
(* removal tries them: RequestedLocal, RequestedLocalFileOverride,         *)
(* RequestedRemote.                                                        *)
(***************************************************************************)
Caches3(r) ==
    <<r.cached_local_packages, r.cached_local_fileoverride_packages, r.cached_packages>>

\* the caches before and after the i-th identifier of the returned call
After(i) == Caches3(last.trace[i])
Before(i) == IF i = 1 THEN Caches3(Pre) ELSE Caches3(last.trace[i - 1])

Without(ht, k) == [x \in DOMAIN ht \ {k} |-> ht[x]]

\* the exact identifiers of a cache that carry the bare name p
NamedIn(ht, p) == {n \in DOMAIN ht : Len(n) = 3 /\ <<n[1]>> = p}

\* a is b less the one entry the fixed order selects for p
Selected(b, a, p) ==
    IF p \in DOMAIN b[1] THEN a = <<Without(b[1], p), b[2], b[3]>>
    ELSE IF p \in DOMAIN b[2] THEN a = <<b[1], Without(b[2], p), b[3]>>
    ELSE IF p \in DOMAIN b[3] THEN a = <<b[1], b[2], Without(b[3], p)>>
    ELSE IF NamedIn(b[1], p) # {} THEN \E n \in NamedIn(b[1], p) : a = <<Without(b[1], n), b[2], b[3]>>
    ELSE IF NamedIn(b[2], p) # {} THEN \E n \in NamedIn(b[2], p) : a = <<b[1], Without(b[2], n), b[3]>>
    ELSE a = b

\* the section of the flat record behind the j-th cache, absent or present
SectionKeys == <<K_requested_local, K_requested_local_fileoverride, K_requested>>
RawSection(kf, j) == IF SectionKeys[j] \in DOMAIN kf THEN <<kf[SectionKeys[j]]>> ELSE <<>>

\* C5 (disambiguation order): every identifier that remove-packages handles
\* removes exactly the one entry picked by the first matching step of
\* (1) exact key in RequestedLocal, (2) exact key in RequestedLocalFileOverride,
\* (3) exact key in RequestedRemote, (4) bare name in the name index over
\* RequestedLocal, then RequestedLocalFileOverride: a name the index holds has
\* its entry removed; nothing else leaves the caches, and with one identifier
\* the sections of the other buckets stay as they were.
C5_DisambiguationOrder ==
    Returns("remove_packages") =>
        /\ \A i \in DOMAIN last.trace :
              /\ last.trace[i].package = last.packages[i]
              /\ last.trace[i].how # "abort"
              /\ Selected(Before(i), After(i), last.packages[i])
        /\ last.ret => Len(last.trace) = Len(last.packages)
        /\ last.trace # <<>> => Caches3(Post) = After(Len(last.trace))
        /\ last.ret /\ Len(last.packages) = 1 =>
              \A j \in 1..3 : After(1)[j] = Before(1)[j] => RawSection(Post.kf, j) = RawSection(Pre.kf, j)

\* p has no exact match in the three caches b
NoExact(b, p) == p \notin DOMAIN b[1] /\ p \notin DOMAIN b[2] /\ p \notin DOMAIN b[3]

\* the i-th identifier matches none of the four steps: no exact key, and no
\* entry of its name in RequestedLocal or RequestedLocalFileOverride
Unmatched(i) ==
    /\ NoExact(Before(i), last.packages[i])
    /\ NamedIn(Before(i)[1], last.packages[i]) = {}
    /\ NamedIn(Before(i)[2], last.packages[i]) = {}

\* the j-th requested bucket of the structured config, as a set of identifiers
Bucket(tf, j) == IF j = 1 THEN DOMAIN tf.packages_local
                 ELSE IF j = 2 THEN DOMAIN tf.packages_local_fileoverride
                 ELSE tf.packages

\* the entry step i removed from cache j is in neither representation
Committed(i, j) ==
    \A k \in DOMAIN Before(i)[j] \ DOMAIN After(i)[j] :
        /\ k \notin DOMAIN Caches3(Post)[j]
        /\ k \notin DOMAIN Section(Post.kf, SectionKeys[j], j # 3)
        /\ k \notin Bucket(Post.treefile, j)

\* C6 (strict versus tolerant removal): an identifier that matches none of the
\* four steps makes the call fail with NotRequested naming it when allow-noent
\* is not set; with allow-noent it is skipped, the call does not fail with
\* NotRequested, and every entry the other identifiers removed is gone from
\* the cache, the flat record and the structured config.
C6_StrictVersusTolerant ==
    Returns("remove_packages") /\ ~last.null_packages =>
        /\ \A i \in DOMAIN last.trace :
              Unmatched(i) =>
                  IF last.flag
                  THEN last.trace[i].how = "skip" /\ After(i) = Before(i)
                  ELSE /\ i = Len(last.trace) /\ ~last.ret
                       /\ last.error = "NotRequested" /\ last.error_arg = last.packages[i]
        /\ last.flag => last.error # "NotRequested"
        /\ last.flag /\ last.ret =>
              /\ Len(last.trace) = Len(last.packages)
              /\ \A i \in DOMAIN last.trace : \A j \in 1..3 : Committed(i, j)

\* C7 (duplicate handling on add): an add of identifiers that are all already
\* requested fails with AlreadyRequested and changes nothing when
\* allow-existing is false; when it is true the call succeeds, reports
\* changed = false and changes nothing.
C7_DuplicateAdd ==
    pc = "returned" /\ last.op \in AddOps /\ last.packages # <<>>
        /\ (\A i \in DOMAIN last.packages :
               AddedId(last.op, last.packages[i]) \in Requested(Pre.treefile))
    => IF last.flag
       THEN /\ last.ret /\ last.error = ""
            /\ last.out_in.ptr => last.out.ptr /\ ~last.out.val
            /\ Post = Pre
       ELSE ~last.ret /\ last.error = "AlreadyRequested" /\ Post = Pre

\* foo was requested and is added again with allow-existing: the caller's
\* variable held true and now reads false
C7_Witness ==
    /\ Returns("add_packages") /\ last.flag /\ last.packages = <<foo>>
    /\ foo \in Pre.treefile.packages
    /\ last.out_in = [ptr |-> TRUE, val |-> TRUE] /\ ~last.out.val
    /\ last.ret /\ Post = Pre

\* the call removed an entry from one of the three requested caches
Removed == Caches3(Post) # Caches3(Pre)

\* C10 as claimed (change reporting): a successful remove-packages call
\* reports changed = true exactly when it removed an entry, whatever the
\* caller's variable held before.
C10_ChangedIffRemoved ==
    Returns("remove_packages") /\ last.ret /\ last.out_in.ptr => last.out.val = Removed

\* C10 as amended: after a successful remove-packages call the caller's
\* variable is true exactly when it was true before the call or the call
\* removed an entry; a call without a variable reports nothing.
C10_ChangedAccumulates ==
    Returns("remove_packages") /\ last.ret =>
        /\ last.out.ptr = last.out_in.ptr
        /\ last.out.val = (last.out_in.ptr /\ (last.out_in.val \/ Removed))

\* nothing was removed, and the variable that held true still does
C10_Witness ==
    /\ Returns("remove_packages") /\ last.ret /\ ~last.null_packages
    /\ last.out_in = [ptr |-> TRUE, val |-> TRUE]
    /\ ~Removed /\ last.out.val

(***************************************************************************)
(* Sharing                                                                 *)
(***************************************************************************)
Operations ==
    AddOps \cup {"remove_packages", "remove_all_packages", "add_override_remove",
                 "add_override_replace_local", "remove_override_remove",
                 "remove_override_replace_local", "remove_all_overrides",
                 "dup", "ref", "unref"}

\* C8 (duplicate-independence): a call on one origin, a mutator or a release,
\* leaves every other origin as it was: same share count, same structured
\* config, flat record and caches, all still allocated.
C8_DuplicateIndependence ==
    pc = "returned" /\ last.op \in Operations =>
        \A o \in DOMAIN last.pre \ {last.origin} :
            /\ o \in Origins(heap)
            /\ Intact(heap, o)
            /\ View(heap, o) = last.pre[o]

\* a removal changed one origin while a second, equal before, exists
C8_Witness ==
    /\ Returns("remove_packages") /\ last.ret /\ last.changed
    /\ \E o \in Origins(heap) \ {last.origin} :
          /\ last.pre[o].kf = Pre.kf
          /\ View(heap, o).kf # Post.kf

\* C9 (shared-ownership lifecycle): acquire returns the record it was given
\* with the count one higher; an origin with a positive count has all its
\* state allocated; a release that leaves the count positive only lowers it;
\* a release that brings it to zero frees the record and everything it owned;
\* a release only aborts on a count of zero.
C9_SharedOwnership ==
    /\ \A o \in Origins(heap) : heap[o].refcount > 0 /\ Intact(heap, o)
    /\ Returns("ref") =>
          /\ last.ret_origin = last.origin
          /\ Post = [Pre EXCEPT !.refcount = @ + 1]
    /\ Returns("unref") =>
          /\ last.abort <=> Pre.refcount = 0
          /\ Pre.refcount > 1 =>
                last.origin \in Origins(heap) /\ Post = [Pre EXCEPT !.refcount = @ - 1]
          /\ Pre.refcount = 1 =>
                \A a \in last.owned[last.origin] \cup {last.origin} : heap[a].kind = "free"

\* the override entries a tolerant removal targets, of a structured config
Targeted(tf) ==
    CASE last.op = "remove_override_remove" -> tf.override_remove \cap Range(last.packages)
      [] last.op = "remove_override_replace_local" ->
             DOMAIN tf.override_replace_local \cap Range(last.packages)
      [] OTHER -> tf.override_remove \cup DOMAIN tf.override_replace_local

TolerantRemovals ==
    {"remove_override_remove", "remove_override_replace_local", "remove_all_overrides"}

\* C11 (tolerant override removal): remove-override-remove, remove-override-
\* replace-local and remove-all-overrides never fail; each returns true exactly
\* when the structured config held a targeted entry, which is then gone from
\* it (nothing else of it changes) and the flat record is the one the adapter
\* produces from the structured config; each returns false with the whole
\* record unchanged when no targeted entry existed.
C11_TolerantOverrideRemoval ==
    pc = "returned" /\ last.op \in TolerantRemovals =>
        /\ last.error = "" /\ ~last.abort
        /\ last.ret = (Targeted(Pre.treefile) # {})
        /\ last.ret =>
              /\ Targeted(Post.treefile) = {}
              /\ Post.treefile =
                    [Pre.treefile EXCEPT
                        !.override_remove = @ \ Targeted(Pre.treefile),
                        !.override_replace_local =
                            [k \in DOMAIN @ \ Targeted(Pre.treefile) |-> @[k]]]
              /\ Post.kf = treefile_to_origin(Post.treefile)
              /\ Post.kf # Pre.kf
        /\ ~last.ret => Post = Pre

\* an override was removed from a record whose flat record a cache-driven
\* removal had written before
C11_Witness ==
    /\ Returns("remove_override_replace_local") /\ last.ret
    /\ Pre.kf # treefile_to_origin(Pre.treefile)
    /\ K_overrides_replace_local \notin DOMAIN Post.kf

\* the hash-qualified tokens of a flat record that do not decompose
Undecomposable(kf) ==
    { tok \in UNION { Range(g_key_file_get_string_list(kf, key)) : key \in HashedKeys } :
        ~TokenDecomposes(tok) }

\* a fully built record: both representations and the five caches, filled
\* from the flat record given
Built(v, input) ==
    /\ v.intact /\ v.refcount = 1
    /\ v.treefile = origin_to_treefile(input)
    /\ v.kf = treefile_to_origin(v.treefile)
    /\ Faithful(v)

BoolToggles == {"initramfs_etc_files_track", "initramfs_etc_files_untrack",
                "initramfs_etc_files_untrack_all", "add_modules", "remove_modules"}
VoidToggles == {"set_regenerate_initramfs", "set_override_commit", "set_cliwrap"}

\* what a void toggle was asked to set is what the structured config holds
ToggleApplied ==
    CASE last.op = "set_regenerate_initramfs" ->
             /\ Post.treefile.initramfs_regenerate = last.args[1]
             /\ Post.treefile.initramfs_args = last.args[2]
      [] last.op = "set_override_commit" ->
             Post.treefile.override_commit = Elvis(last.args[1], "")
      [] last.op = "set_cliwrap" -> Post.treefile.cliwrap = last.args[1]
      [] OTHER -> TRUE

\* C13 (auxiliary toggles), as claimed: every auxiliary toggle mutates the
\* structured config, leaves the flat record regenerated from it, and reports
\* to the caller whether the structured config changed.
C13_TogglesReportChange ==
    pc = "returned" /\ last.op \in BoolToggles \cup VoidToggles =>
        /\ ToggleApplied
        /\ Post.kf = treefile_to_origin(Post.treefile)
        /\ ~last.void /\ last.ret = (Post.treefile # Pre.treefile)

\* C13, amended: module add/remove and etc-file track/untrack/untrack-all
\* return whether the structured config changed, regenerate the flat record
\* from it when it did and leave the whole record as it was when it did not;
\* set-regenerate-initramfs, set-override-commit and set-cliwrap store what
\* they are given, always regenerate the flat record from the structured
\* config, and return nothing.
C13_TogglesAmended ==
    /\ pc = "returned" /\ last.op \in BoolToggles =>
          /\ ~last.void /\ last.error = ""
          /\ last.ret = (Post.treefile # Pre.treefile)
          /\ last.ret => Post.kf = treefile_to_origin(Post.treefile)
          /\ ~last.ret => Post = Pre
    /\ pc = "returned" /\ last.op \in VoidToggles =>
          /\ last.void
          /\ ToggleApplied
          /\ Post.kf = treefile_to_origin(Post.treefile)

\* a void setter that changed nothing of the structured config regenerated a
\* flat record that a cache-driven removal had written
C13_Witness ==
    /\ Returns("set_cliwrap") /\ Post.treefile = Pre.treefile
    /\ Pre.kf # treefile_to_origin(Pre.treefile)
    /\ Post.kf = treefile_to_origin(Post.treefile)

RebaseOps == {"set_rebase", "set_rebase_custom"}

\* C14 (rebase): set-rebase and set-rebase-custom never fail; after the call
\* the base reference of the structured config is the new refspec, its custom
\* URL and custom description are the given values, or empty when not given
\* (always empty after set-rebase), nothing else of it has changed, and the
\* flat record is the one the adapter produces from it.
C14_Rebase ==
    pc = "returned" /\ last.op \in RebaseOps =>
        /\ last.error = "" /\ ~last.abort /\ Post.intact
        /\ Post.treefile =
              [Pre.treefile EXCEPT
                  !.refspec = last.args[1],
                  !.custom_url = IF last.op = "set_rebase" THEN "" ELSE Elvis(last.args[2], ""),
                  !.custom_description =
                      IF last.op = "set_rebase" THEN "" ELSE Elvis(last.args[3], "")]
        /\ Post.kf = treefile_to_origin(Post.treefile)
        /\ Post.kf[K_refspec] = last.args[1]

\* a set-rebase cleared a custom URL, and a set-rebase-custom without a
\* description cleared the description next to a URL it was given
C14_Witness ==
    \/ /\ Returns("set_rebase") /\ Pre.treefile.custom_url # ""
       /\ K_custom_url \notin DOMAIN Post.kf
    \/ /\ Returns("set_rebase_custom") /\ Pre.treefile.custom_description # ""
       /\ last.args[2].ptr /\ ~last.args[3].ptr
       /\ K_custom_description \notin DOMAIN Post.kf

\* C18 (failure of sync-structured-from-flat): a remove-packages call at
\* whose end the adapter cannot convert the flat record fails with a
\* ConversionError and leaves the record as it was before the call, its
\* structured config present.
C18_SyncFailureLeavesRecord ==
    Returns("remove_packages") /\ last.error = "ConversionError" =>
        /\ ~last.ret
        /\ Post.intact
        /\ Post = Pre

\* the j-th cache lost an entry in the returned call
Lost(j) == Caches3(Post)[j] # Caches3(Pre)[j]

\* the keys of the sections whose cache lost an entry, in write-back order
LostKeys == SelectSeq(<<K_requested, K_requested_local, K_requested_local_fileoverride>>,
                      LAMBDA key : \E j \in 1..3 : SectionKeys[j] = key /\ Lost(j))

\* C15 (remove-packages frame and ordering): a remove-packages call writes
\* only sections whose cache lost an entry in the call, a successful call
\* exactly those; every other key of the flat record, and every section whose
\* cache lost nothing, is as before; when something changed the structured config is
\* re-derived once, as the last step after the write-backs, and is what the
\* adapter produces from the flat record the call leaves; when nothing
\* changed, the flat record, the structured config and the cells that hold
\* them are untouched.
C15_RemoveFrame ==
    Returns("remove_packages") =>
        /\ \A j \in 1..3 : ~Lost(j) => RawSection(Post.kf, j) = RawSection(Pre.kf, j)
        /\ \A key \in (DOMAIN Pre.kf \cup DOMAIN Post.kf) \ Range(SectionKeys) :
              key \in DOMAIN Pre.kf /\ key \in DOMAIN Post.kf /\ Post.kf[key] = Pre.kf[key]
        /\ last.ret =>
              /\ last.log = LostKeys \o (IF Removed THEN <<"sync_treefile">> ELSE <<>>)
              /\ Removed => Post.treefile = origin_to_treefile(Post.kf)
        /\ ~Removed =>
              /\ Post.kf = Pre.kf /\ Post.treefile = Pre.treefile
              /\ heap[last.origin].kf \in last.owned[last.origin]
              /\ heap[last.origin].treefile \in last.owned[last.origin]
              /\ last.log = <<>>

\* one call changed two caches and left the third alone: two sections were
\* written, then the structured config re-derived
C15_Witness ==
    /\ Returns("remove_packages") /\ last.ret
    /\ Len(last.log) = 3 /\ last.log[3] = "sync_treefile"
    /\ \E j \in 1..3 : ~Lost(j) /\ RawSection(Pre.kf, j) # <<>>

\* the entries a section written from a cache holds: the bare key of a set
\* cache, "<hash>:<identifier>" of a map cache
Encoded(ht, has_csum) == { IF has_csum THEN Token(ht[k], k) ELSE k : k \in DOMAIN ht }

C17_DeterministicRemoval ==
    Returns("remove_packages") =>
        \A x \in last.others :
            /\ x.ret = last.ret /\ x.error = last.error /\ x.abort = last.abort
            /\ x.view.treefile = Post.treefile
            /\ Caches3(x.view) = Caches3(Post)

\* one of the identifiers of the call matches the package p: it is p itself,
\* or the bare name of the exact identifier p
Named(p) ==
    \E i \in DOMAIN last.packages :
        \/ last.packages[i] = p
        \/ IsNevra(p) /\ NevraName(p) = last.packages[i]

\* C20 (no unnamed package removed): after a successful remove-packages call
\* every package that was in a requested bucket of the structured config and
\* in its section of the flat record before the call, and that no identifier
\* of the call matches, is still in both.
C20_OnlyNamedRemoved ==
    Returns("remove_packages") /\ last.ret =>
        \A j \in 1..3 :
            \A p \in Bucket(Pre.treefile, j) \cap DOMAIN Section(Pre.kf, SectionKeys[j], j # 3) :
                ~Named(p) =>
                    /\ p \in Bucket(Post.treefile, j)
                    /\ p \in DOMAIN Section(Post.kf, SectionKeys[j], j # 3)

\* C21 (assertions of the bare-name path): no remove-packages call ends in a
\* failed assertion: whenever the name index of the call holds the requested
\* name, the entry it points to is still in its cache and is removed.
C21_NameIndexAssertions ==
    Returns("remove_packages") =>
        /\ ~last.abort
        /\ \A i \in DOMAIN last.trace : last.trace[i].how # "abort"

====
